---- MODULE Spec2Model ----
(***************************************************************************)
(* Model of scripts/locations_data_load/locations_lambda.py: the scheduled *)
(* job that reads organisations from the ODS directory API, normalises     *)
(* them, writes them to the DynamoDB table "locations" and cross-links     *)
(* them to the table "organisations".                                      *)
(*                                                                         *)
(* JSON / Python values are tagged records: None, Str(<<chars>>),          *)
(* List(<<values>>), Dict(function from key to value).  An exception that  *)
(* a Python expression raises is the value Raise, which every operator     *)
(* propagates until a handler of the source catches it.                    *)
(***************************************************************************)
EXTENDS Integers, Sequences, FiniteSets, TLC

VARIABLES locations, orgs, nextId, pc, caller, token, codes, idx,
          response_data, api_result, processed_data, snapshot, fn_in, fn_out,
          overlapped

vars == <<locations, orgs, nextId, pc, caller, token, codes, idx,
          response_data, api_result, processed_data, snapshot, fn_in, fn_out,
          overlapped>>

----------------------------------------------------------------------------
(* Python values *)

None == [t |-> "none"]
Raise == [t |-> "raise"]
Str(s) == [t |-> "str", v |-> s]
List(l) == [t |-> "list", v |-> l]
Dict(d) == [t |-> "dict", v |-> d]
EmptyDict == Dict(<<>>)
EmptyStr == Str(<<>>)

IsStr(x) == x.t = "str"
IsList(x) == x.t = "list"
IsDict(x) == x.t = "dict"

\* d.get(key): AttributeError when d is not a dict, None when the key is absent
Get(d, key) ==
  IF d = Raise THEN Raise
  ELSE IF ~IsDict(d) THEN Raise
  ELSE IF key \in DOMAIN d.v THEN d.v[key] ELSE None

\* l[i] (Python index i, 0-based): TypeError on None, KeyError on a dict,
\* IndexError past the end; a str yields its i-th character
Index(l, i) ==
  IF l = Raise THEN Raise
  ELSE IF IsList(l) THEN (IF i + 1 <= Len(l.v) THEN l.v[i + 1] ELSE Raise)
  ELSE IF IsStr(l) THEN (IF i + 1 <= Len(l.v) THEN Str(<<l.v[i + 1]>>) ELSE Raise)
  ELSE Raise

----------------------------------------------------------------------------
(* str.title() over a small alphabet *)

LowerChars == <<"a", "b", "s", "t">>
UpperChars == <<"A", "B", "S", "T">>
OtherChars == <<" ", "1">>

IsLowerChar(c) == \E i \in 1..Len(LowerChars) : LowerChars[i] = c
IsUpperChar(c) == \E i \in 1..Len(UpperChars) : UpperChars[i] = c
IsCased(c) == IsLowerChar(c) \/ IsUpperChar(c)

ToUpper(c) ==
  IF IsLowerChar(c)
    THEN UpperChars[CHOOSE i \in 1..Len(LowerChars) : LowerChars[i] = c]
    ELSE c

ToLower(c) ==
  IF IsUpperChar(c)
    THEN LowerChars[CHOOSE i \in 1..Len(UpperChars) : UpperChars[i] = c]
    ELSE c

\* str.title(): a cased character that follows a cased character is
\* lowercased, any other cased character is uppercased
RECURSIVE TitleFrom(_, _, _)
TitleFrom(s, i, previous_is_cased) ==
  IF i > Len(s) THEN <<>>
  ELSE <<IF previous_is_cased THEN ToLower(s[i]) ELSE ToUpper(s[i])>>
       \o TitleFrom(s, i + 1, IsCased(s[i]))

Title(s) == TitleFrom(s, 1, FALSE)

\* value.title(): AttributeError unless value is a str
title(value) == IF IsStr(value) THEN Str(Title(value.v)) ELSE Raise

capitalize_line(line) == title(line)

----------------------------------------------------------------------------
(* capitalize_address_item *)

CapitalizedKeys(address_item) == DOMAIN address_item.v \ {"extension"}

\* variant: postalCode handled like city, district and country
CapitalizedValue_titledPostalCode(key, value) ==
  IF key = "line" /\ IsList(value)
    THEN IF \E i \in 1..Len(value.v) : capitalize_line(value.v[i]) = Raise
           THEN Raise
           ELSE List([i \in 1..Len(value.v) |-> capitalize_line(value.v[i])])
  ELSE IF key \in {"city", "district", "country", "postalCode"} THEN title(value)
  ELSE value

CapitalizedValue(key, value) ==
  IF key = "line" /\ IsList(value)
    THEN IF \E i \in 1..Len(value.v) : capitalize_line(value.v[i]) = Raise
           THEN Raise
           ELSE List([i \in 1..Len(value.v) |-> capitalize_line(value.v[i])])
  ELSE IF key \in {"city", "district", "country"} THEN title(value)
  ELSE IF key = "postalCode" THEN value
  ELSE value

capitalize_address_item(address_item) ==
  IF \E key \in CapitalizedKeys(address_item) :
       CapitalizedValue(key, address_item.v[key]) = Raise
    THEN Raise
    ELSE Dict([key \in CapitalizedKeys(address_item) |->
                 CapitalizedValue(key, address_item.v[key])])

----------------------------------------------------------------------------
(* process_organizations *)

\* try: org.get("address")[0].get("extension")[0].get("extension")[1]
\*          .get("valueString")   except Exception: "NA"
UprnPath(org) ==
  Get(Index(Get(Index(Get(Index(Get(org, "address"), 0), "extension"), 0),
                "extension"), 1), "valueString")

ExtractUprn(org) == IF UprnPath(org) = Raise THEN Str(<<"N", "A">>) ELSE UprnPath(org)

\* org.get("address", []) : the default applies only when the key is absent
AddressOf(org) == IF "address" \in DOMAIN org.v THEN org.v["address"] ELSE List(<<>>)

\* [capitalize_address_item(a) for a in org.get("address", []) if isinstance(a, dict)]
\* None is not iterable; the elements of a str or of a dict are not dicts
CapitalizedAddress(org) ==
  LET address == AddressOf(org) IN
  IF address = None THEN Raise
  ELSE IF ~IsList(address) THEN List(<<>>)
  ELSE LET items == SelectSeq(address.v, IsDict) IN
       IF \E i \in 1..Len(items) : capitalize_address_item(items[i]) = Raise
         THEN Raise
         ELSE List([i \in 1..Len(items) |-> capitalize_address_item(items[i])])

Skip == [t |-> "skip"]

ProcessedAttributes(org, random_id, now_time) ==
  [id |-> random_id,
   lookup_field |-> Get(org, "id"),
   active |-> Str(<<"t">>),
   name |-> title(Get(org, "name")),
   Address |-> CapitalizedAddress(org),
   createdDateTime |-> now_time,
   createdBy |-> Str(<<"A">>),
   modifiedBy |-> Str(<<"A">>),
   modifiedDateTime |-> now_time,
   UPRN |-> ExtractUprn(org),
   position |-> Dict([longitude |-> EmptyStr, latitude |-> EmptyStr]),
   managingOrganization |-> EmptyStr]

\* processed_attributes.pop("UPRN")
PopUprn(attrs) == [key \in DOMAIN attrs \ {"UPRN"} |-> attrs[key]]

\* the body of the loop over the entries: Raise, Skip (not an Organization)
\* or the record appended to processed_data
ProcessEntry(resvars, random_id, now_time) ==
  LET org == Get(resvars, "resource") IN
  IF Get(org, "resourceType") = Raise THEN Raise
  ELSE IF Get(org, "resourceType") # Str(<<"O">>) THEN Skip
  ELSE LET attrs == ProcessedAttributes(org, random_id, now_time) IN
       IF attrs.name = Raise \/ attrs.Address = Raise THEN Raise
       ELSE IF attrs.UPRN = Str(<<"N", "A">>) THEN PopUprn(attrs)
       ELSE attrs

\* one random_id and one now_time per call, shared by every record of the call
RECURSIVE process_organizations(_, _, _)
process_organizations(organizations, random_id, now_time) ==
  IF organizations = <<>> THEN List(<<>>)
  ELSE LET head == ProcessEntry(Head(organizations), random_id, now_time)
           rest == process_organizations(Tail(organizations), random_id, now_time)
       IN IF head = Raise THEN Raise
          ELSE IF rest = Raise THEN Raise
          ELSE IF head = Skip THEN rest
          ELSE List(<<head>> \o rest.v)

----------------------------------------------------------------------------
(* DynamoDB tables.  locations is the table "locations" as a function from  *)
(* its key `id` to the item; orgs is the table "organisations" in scan      *)
(* order.                                                                   *)

\* Python truthiness of the values that occur
Truthy(x) ==
  IF x = None THEN FALSE
  ELSE IF IsStr(x) \/ IsList(x) THEN Len(x.v) > 0
  ELSE IF IsDict(x) THEN DOMAIN x.v # {}
  ELSE TRUE

\* d.get(key, default)
GetDefault(d, key, default) == IF key \in DOMAIN d.v THEN d.v[key] ELSE default

\* table.scan(FilterExpression=Attr("lookup_field").eq(identifier_value))
ScanLookup(table, identifier_value) ==
  {i \in DOMAIN table : table[i].lookup_field = identifier_value}

\* variant: the existence check never finds anything
data_exists_never(table, identifier_value) == FALSE

data_exists(table, identifier_value) == ScanLookup(table, identifier_value) # {}

\* table.put_item(Item=item): creates the item or replaces the item that has
\* the same key
put_item(table, item) ==
  [i \in DOMAIN table \cup {item.id} |-> IF i = item.id THEN item ELSE table[i]]

\* table.update_item(Key={"id": id}, "SET managingOrganization = :val"):
\* creates the item when the key does not exist
update_item(table, id, val) ==
  IF id \in DOMAIN table
    THEN [table EXCEPT ![id].managingOrganization = val]
    ELSE [i \in DOMAIN table \cup {id} |->
            IF i = id THEN [id |-> id, managingOrganization |-> val] ELSE table[i]]

\* the loop over org_items for one locations_item
RECURSIVE LinkItem(_, _, _)
LinkItem(table, locations_item, org_items) ==
  IF org_items = <<>> THEN table
  ELSE LET org_item == Head(org_items)
           org_identifier_value ==
             GetDefault(GetDefault(org_item, "identifier", EmptyDict), "value", EmptyStr)
       IN LinkItem(IF org_identifier_value = locations_item.lookup_field
                     THEN update_item(table, locations_item.id, Get(org_item, "id"))
                     ELSE table,
                   locations_item, Tail(org_items))

\* variant: without `if locations_lookup_field_value:`
LinkLocation_anyLookup(table, locations_item, org_items) ==
  IF locations_item.managingOrganization = EmptyStr
    THEN LinkItem(table, locations_item, org_items)
    ELSE table

\* variant: without `if locations_item.get("managingOrganization") == "":`
LinkLocation_relink(table, locations_item, org_items) ==
  IF Truthy(locations_item.lookup_field)
    THEN LinkItem(table, locations_item, org_items)
    ELSE table

\* the body of the loop over locations_items
LinkLocation(table, locations_item, org_items) ==
  IF locations_item.managingOrganization = EmptyStr
     /\ Truthy(locations_item.lookup_field)
    THEN LinkItem(table, locations_item, org_items)
    ELSE table

\* the loop over the scanned locations_items, applied to the live table
RECURSIVE LinkAll(_, _, _, _)
LinkAll(table, locations_items, ids, org_items) ==
  IF ids = {} THEN table
  ELSE LET i == CHOOSE j \in ids : \A k \in ids : j <= k
       IN LinkAll(LinkLocation(table, locations_items[i], org_items),
                  locations_items, ids \ {i}, org_items)

update_records(table, scanned) ==
  LinkAll(table, scanned.locations_items, DOMAIN scanned.locations_items,
          scanned.org_items)

\* variant: the body is decoded whatever the status code
read_ods_api_anyStatus(outcome) ==
  IF outcome.kind = "exception" THEN None ELSE outcome.json

\* read_ods_api: the decoded JSON on status 200, None otherwise
read_ods_api(outcome) ==
  IF outcome.kind = "exception" THEN None
  ELSE IF outcome.status_code = 200 THEN outcome.json
  ELSE None

----------------------------------------------------------------------------
(* Bounds and the inputs the environment supplies *)

MaxCalls == 2   \* calls of process_organizations (each draws a fresh uuid)
MaxBatch == 2   \* entries in one API response
MaxCodes == 2   \* ODS codes in the spreadsheet
MaxOrgs == 2    \* items in the organisations table

Procs == {1, 2}
MainProc == 1

Unbound == [t |-> "unbound"]
NoSnapshot == [org_items |-> <<>>, locations_items |-> <<>>]

OrgIdA == Str(<<"A">>)
OrgIdB == Str(<<"B">>)

\* address with the nested UPRN path present
AddressWithUprn ==
  Dict([line |-> List(<<Str(<<"a", " ", "b">>)>>),
        city |-> Str(<<"s", "t">>),
        postalCode |-> Str(<<"a", "1">>),
        extension |->
          List(<<Dict([extension |->
                   List(<<Dict([url |-> Str(<<"t">>)]),
                          Dict([valueString |-> Str(<<"1">>)])>>)])>>)])

Entry(fields) == Dict([resource |-> Dict(fields)])

\* entries of an API response: no resource, organisations A (with UPRN) and
\* B (no address), an organisation whose id is empty
Entries ==
  {EmptyDict,
   Entry([resourceType |-> Str(<<"O">>), id |-> OrgIdA, name |-> Str(<<"s", "t">>),
          address |-> List(<<AddressWithUprn>>)]),
   Entry([resourceType |-> Str(<<"O">>), id |-> OrgIdB, name |-> Str(<<"a", "b">>)]),
   Entry([resourceType |-> Str(<<"O">>), id |-> EmptyStr, name |-> Str(<<"b">>)])}

Batches(entries) == UNION {[1..n -> entries] : n \in 0..MaxBatch}

Bundle == [resourceType |-> Str(<<"B">>)]

\* outcomes of requests.get: an exception, a non-200 status with an error
\* body, or status 200
\* with an empty JSON object, a bundle without `entry`, or a bundle of entries
Outcomes(entries) ==
  {[kind |-> "exception"],
   [kind |-> "response", status_code |-> 500, json |-> Dict([issue |-> Str(<<"1">>)])],
   [kind |-> "response", status_code |-> 200, json |-> EmptyDict],
   [kind |-> "response", status_code |-> 200, json |-> Dict(Bundle)]}
  \cup {[kind |-> "response", status_code |-> 200,
         json |-> Dict([resourceType |-> Str(<<"B">>), entry |-> List(b)])] :
          b \in Batches(entries)}

\* the ODS_Codes column of the spreadsheet
CodeLists == {[i \in 1..n |-> Str(<<"1">>)] : n \in 0..MaxCodes}

\* token endpoint responses: with or without access_token
Tokens == {None, Str(<<"t">>)}

\* items of the organisations table: two whose identifier is A, one without
\* identifier
OrgItems ==
  {Dict([id |-> Str(<<"S">>), identifier |-> Dict([value |-> OrgIdA])]),
   Dict([id |-> Str(<<"T">>), identifier |-> Dict([value |-> OrgIdA])]),
   Dict([id |-> Str(<<"b">>)])}

OrgTables ==
  UNION {{s \in [1..n -> OrgItems] : \A i, j \in 1..n : i # j => s[i] # s[j]} :
           n \in 0..MaxOrgs}

----------------------------------------------------------------------------
(* The job *)

\* get_headers: "Bearer " + token raises TypeError when token is None
get_headers(tok) ==
  IF tok = None THEN Raise ELSE Dict([Authorization |-> Str(<<"B">> \o tok.v)])

Running(p) == pc[p] \notin {"idle", "done", "crashed"}

\* lambda_handler is invoked
Invoke(p) ==
  /\ ~Running(p)
  /\ pc' = [pc EXCEPT ![p] = "fo_headers"]
  /\ caller' = [caller EXCEPT ![p] = "fetch_organizations"]
  /\ token' = [token EXCEPT ![p] = Unbound]
  /\ overlapped' = (overlapped \/ \E q \in Procs \ {p} : Running(q))
  /\ UNCHANGED <<locations, orgs, nextId, codes, idx, response_data, api_result,
                 processed_data, snapshot, fn_in, fn_out>>

\* one invocation at a time
InvokeSequential(p) ==
  /\ \A q \in Procs : ~Running(q)
  /\ Invoke(p)

\* lambda_handler returns ("done") or an exception escapes it ("crashed"):
\* the locals of the pass are gone
Exit(p, outcome) ==
  /\ pc' = [pc EXCEPT ![p] = outcome]
  /\ codes' = [codes EXCEPT ![p] = <<>>]
  /\ idx' = [idx EXCEPT ![p] = 0]
  /\ response_data' = [response_data EXCEPT ![p] = Unbound]
  /\ api_result' = [api_result EXCEPT ![p] = "none"]
  /\ processed_data' = [processed_data EXCEPT ![p] = <<>>]
  /\ snapshot' = [snapshot EXCEPT ![p] = NoSnapshot]

\* fetch_organizations up to the loop: get_headers, read_excel_values
FoHeaders(p) ==
  /\ pc[p] = "fo_headers"
  /\ \E tok \in Tokens, c \in CodeLists :
       /\ token' = [token EXCEPT ![p] = tok]
       /\ IF get_headers(tok) = Raise
            THEN Exit(p, "crashed")
            ELSE /\ codes' = [codes EXCEPT ![p] = c]
                 /\ idx' = [idx EXCEPT ![p] = 1]
                 /\ pc' = [pc EXCEPT ![p] = "fo_loop"]
                 /\ UNCHANGED <<response_data, api_result, processed_data, snapshot>>
  /\ UNCHANGED <<locations, orgs, nextId, caller, fn_in, fn_out, overlapped>>

\* the read of one loop iteration (or of fetch_y_organizations)
Read(p, outcomes) ==
  /\ \/ pc[p] = "fo_loop" /\ idx[p] <= Len(codes[p])
     \/ pc[p] = "fy_read"
  /\ \E o \in outcomes :
       /\ Truthy(read_ods_api(o)) => nextId <= MaxCalls
       /\ api_result' = [api_result EXCEPT ![p] =
            IF o.kind = "exception" THEN "exception"
            ELSE IF o.status_code = 200 THEN "200" ELSE "non200"]
       /\ response_data' = [response_data EXCEPT ![p] = read_ods_api(o)]
  /\ pc' = [pc EXCEPT ![p] = "branch"]
  /\ UNCHANGED <<locations, orgs, nextId, token, codes, idx, processed_data,
                 snapshot, caller, fn_in, fn_out, overlapped>>

\* where control continues after the `if response_data:` statement: the next
\* loop iteration of fetch_organizations, or the return of
\* fetch_y_organizations and of lambda_handler
Continue(p) ==
  IF caller[p] = "fetch_organizations"
    THEN /\ idx' = [idx EXCEPT ![p] = idx[p] + 1]
         /\ pc' = [pc EXCEPT ![p] = "fo_loop"]
         /\ processed_data' = [processed_data EXCEPT ![p] = <<>>]
         /\ snapshot' = [snapshot EXCEPT ![p] = NoSnapshot]
         /\ UNCHANGED <<codes, response_data, api_result>>
    ELSE Exit(p, "done")

\* `if response_data:` : process_organizations and the start of
\* write_to_dynamodb, or the failure message
Branch(p) ==
  /\ pc[p] = "branch"
  /\ IF Truthy(response_data[p])
       THEN LET organizations == GetDefault(response_data[p], "entry", List(<<>>)).v
                processed == process_organizations(organizations, nextId, nextId)
            IN /\ nextId' = nextId + 1
               /\ IF processed = Raise
                    THEN Exit(p, "crashed")
                    ELSE /\ pc' = [pc EXCEPT ![p] = "write_check"]
                         /\ processed_data' = [processed_data EXCEPT ![p] = processed.v]
                         /\ UNCHANGED <<codes, idx, response_data, api_result, snapshot>>
       ELSE /\ Continue(p)
            /\ UNCHANGED nextId
  /\ UNCHANGED <<locations, orgs, token, caller, fn_in, fn_out, overlapped>>

\* write_to_dynamodb: data_exists for the next item
WriteCheck(p) ==
  /\ pc[p] = "write_check"
  /\ IF processed_data[p] = <<>>
       THEN /\ pc' = [pc EXCEPT ![p] = "ur_scan"]
            /\ UNCHANGED processed_data
       ELSE IF data_exists(locations, Head(processed_data[p]).lookup_field) = FALSE
         THEN /\ pc' = [pc EXCEPT ![p] = "write_put"]
              /\ UNCHANGED processed_data
         ELSE /\ processed_data' = [processed_data EXCEPT ![p] = Tail(processed_data[p])]
              /\ UNCHANGED pc
  /\ UNCHANGED <<locations, orgs, nextId, token, codes, idx, response_data,
                 api_result, snapshot, caller, fn_in, fn_out, overlapped>>

\* write_to_dynamodb: put_item of the item whose check found nothing
WritePut(p) ==
  /\ pc[p] = "write_put"
  /\ locations' = put_item(locations, Head(processed_data[p]))
  /\ processed_data' = [processed_data EXCEPT ![p] = Tail(processed_data[p])]
  /\ pc' = [pc EXCEPT ![p] = "write_check"]
  /\ UNCHANGED <<orgs, nextId, token, codes, idx, response_data, api_result,
                 snapshot, caller, fn_in, fn_out, overlapped>>

\* update_records: the two scans
ScanTables(p) ==
  /\ pc[p] = "ur_scan"
  /\ snapshot' = [snapshot EXCEPT ![p] =
                    [org_items |-> orgs, locations_items |-> locations]]
  /\ pc' = [pc EXCEPT ![p] = "ur_update"]
  /\ UNCHANGED <<locations, orgs, nextId, token, codes, idx, response_data,
                 api_result, processed_data, caller, fn_in, fn_out, overlapped>>

\* update_records: the loops over the scanned items
UpdateRecords(p) ==
  /\ pc[p] = "ur_update"
  /\ locations' = update_records(locations, snapshot[p])
  /\ Continue(p)
  /\ UNCHANGED <<orgs, nextId, token, caller, fn_in, fn_out, overlapped>>

\* fetch_organizations after the loop: `if response_data:` raises
\* UnboundLocalError when the loop body never ran; then fetch_y_organizations
\* starts with its own get_headers
FoEnd(p) ==
  /\ pc[p] = "fo_loop"
  /\ idx[p] > Len(codes[p])
  /\ IF response_data[p] = Unbound
       THEN /\ Exit(p, "crashed")
            /\ UNCHANGED caller
       ELSE /\ pc' = [pc EXCEPT ![p] = "fy_headers"]
            /\ caller' = [caller EXCEPT ![p] = "fetch_y_organizations"]
            /\ codes' = [codes EXCEPT ![p] = <<>>]
            /\ idx' = [idx EXCEPT ![p] = 0]
            /\ response_data' = [response_data EXCEPT ![p] = Unbound]
            /\ api_result' = [api_result EXCEPT ![p] = "none"]
            /\ UNCHANGED <<processed_data, snapshot>>
  /\ UNCHANGED <<locations, orgs, nextId, token, fn_in, fn_out, overlapped>>

FyHeaders(p) ==
  /\ pc[p] = "fy_headers"
  /\ \E tok \in Tokens :
       /\ token' = [token EXCEPT ![p] = tok]
       /\ IF get_headers(tok) = Raise
            THEN Exit(p, "crashed")
            ELSE /\ pc' = [pc EXCEPT ![p] = "fy_read"]
                 /\ UNCHANGED <<codes, idx, response_data, api_result,
                                processed_data, snapshot>>
  /\ UNCHANGED <<locations, orgs, nextId, caller, fn_in, fn_out, overlapped>>

\* the organisations table is maintained by another system; the job reads it
\* only in the scans of update_records, where a change becomes visible
EnvOrgChange ==
  /\ \E p \in Procs : pc[p] = "ur_scan"
  /\ \E o \in OrgTables : o # orgs /\ orgs' = o
  /\ UNCHANGED <<locations, nextId, pc, token, codes, idx, response_data,
                 api_result, processed_data, snapshot, caller, fn_in, fn_out,
                 overlapped>>

NotStarted == [done |-> FALSE]

InitLocals ==
  /\ locations = <<>>
  /\ nextId = 1
  /\ pc = [p \in Procs |-> "idle"]
  /\ caller = [p \in Procs |-> "none"]
  /\ token = [p \in Procs |-> Unbound]
  /\ codes = [p \in Procs |-> <<>>]
  /\ idx = [p \in Procs |-> 0]
  /\ response_data = [p \in Procs |-> Unbound]
  /\ api_result = [p \in Procs |-> "none"]
  /\ processed_data = [p \in Procs |-> <<>>]
  /\ snapshot = [p \in Procs |-> NoSnapshot]
  /\ fn_out = NotStarted
  /\ overlapped = FALSE

\* both tables empty, no invocation yet
Init ==
  /\ InitLocals
  /\ orgs = <<>>
  /\ fn_in = None

Next ==
  \/ InvokeSequential(MainProc)
  \/ FoHeaders(MainProc)
  \/ Read(MainProc, Outcomes(Entries))
  \/ Branch(MainProc)
  \/ WriteCheck(MainProc)
  \/ WritePut(MainProc)
  \/ ScanTables(MainProc)
  \/ UpdateRecords(MainProc)
  \/ FoEnd(MainProc)
  \/ FyHeaders(MainProc)
  \/ EnvOrgChange

Spec == Init /\ [][Next]_vars

----------------------------------------------------------------------------
(* Two invocations of the job that may overlap: the same steps, without the *)
(* one-at-a-time condition.  overlapped records that some invocation        *)
(* started while another one was running.                                   *)

\* entries of the responses: both invocations read organisation A
ConcEntries ==
  {Entry([resourceType |-> Str(<<"O">>), id |-> OrgIdA, name |-> Str(<<"s", "t">>)])}

\* the organisations table holds one item for organisation A and stays as it is
InitConc ==
  /\ InitLocals
  /\ orgs = <<Dict([id |-> Str(<<"S">>), identifier |-> Dict([value |-> OrgIdA])])>>
  /\ fn_in = None

NextConc ==
  \E p \in Procs :
    \/ Invoke(p)
    \/ FoHeaders(p)
    \/ Read(p, Outcomes(ConcEntries))
    \/ Branch(p)
    \/ WriteCheck(p)
    \/ WritePut(p)
    \/ ScanTables(p)
    \/ UpdateRecords(p)
    \/ FoEnd(p)
    \/ FyHeaders(p)

SpecConc == InitConc /\ [][NextConc]_vars

----------------------------------------------------------------------------
(* The normalisation functions applied to one input *)

MaxStrLen == 2   \* length of the strings given to str.title()

Chars == {LowerChars[i] : i \in 1..Len(LowerChars)}
         \cup {UpperChars[i] : i \in 1..Len(UpperChars)}
         \cup {OtherChars[i] : i \in 1..Len(OtherChars)}

Strings == {Str(s) : s \in UNION {[1..n -> Chars] : n \in 0..MaxStrLen}}

Extend(d, key, value) ==
  [k \in DOMAIN d \cup {key} |-> IF k = key THEN value ELSE d[k]]

\* the dicts of ds, and the same dicts with `key` set to one of values
WithOptional(ds, key, values) ==
  ds \cup {Extend(d, key, value) : d \in ds, value \in values}

SomeLine == Str(<<"a", "S", " ", "t">>)

\* raw address items: every key optional, `line` a list of strings or (not
\* FHIR-conformant) a bare string
AddressItems ==
  {Dict(d) : d \in
     WithOptional(
       WithOptional(
         WithOptional(
           WithOptional(
             WithOptional(
               WithOptional(
                 WithOptional({<<>>}, "city", Strings),
                 "line", {List(<<>>), List(<<SomeLine>>),
                          List(<<SomeLine, Str(<<"b">>)>>), SomeLine}),
               "district", {Str(<<"s", "B">>)}),
             "country", {Str(<<"t", "1", "a">>)}),
           "postalCode", {Str(<<"a", "b", "1", " ", "1", "a", "b">>)}),
         "extension", {List(<<Dict([url |-> Str(<<"t">>)])>>)}),
       "use", {Str(<<"s">>)})}

\* the innermost extensions: without valueString, with a value, with the
\* value "NA"
InnerExtensions ==
  {Dict([url |-> Str(<<"t">>)]),
   Dict([url |-> Str(<<"t">>), valueString |-> Str(<<"1">>)]),
   Dict([valueString |-> Str(<<"N", "A">>)])}

OuterExtensions ==
  {Dict(d) : d \in
     WithOptional({[url |-> Str(<<"s">>)]}, "extension",
       {List(<<>>), List(<<Dict([url |-> Str(<<"t">>)])>>)}
       \cup {List(<<Dict([url |-> Str(<<"t">>)]), inner>>) : inner \in InnerExtensions})}

UprnAddresses ==
  {Dict(d) : d \in
     WithOptional({[city |-> Str(<<"s", "t">>)]}, "extension",
       {List(<<>>)} \cup {List(<<outer>>) : outer \in OuterExtensions})}

\* Organization resources with every shape of the nested UPRN path
UprnOrganizations ==
  {Dict(d) : d \in
     WithOptional({[resourceType |-> Str(<<"O">>), id |-> OrgIdA,
                    name |-> Str(<<"s", "t", " ", "a">>)]},
       "address", {List(<<>>)} \cup {List(<<a>>) : a \in UprnAddresses})}

\* entries that yield no record: no resource, a resource that is not an
\* Organization, an Organization without a name
OtherEntries ==
  {EmptyDict,
   Entry([resourceType |-> Str(<<"F">>), id |-> OrgIdA]),
   Entry([resourceType |-> Str(<<"O">>), id |-> OrgIdA])}

FnInputs ==
  {[fn |-> "capitalize_address_item", arg |-> a] : a \in AddressItems}
  \cup {[fn |-> "process_organizations", arg |-> Dict([resource |-> o])] :
          o \in UprnOrganizations}
  \cup {[fn |-> "process_organizations", arg |-> e] : e \in OtherEntries}

InitFn ==
  /\ InitLocals
  /\ orgs = <<>>
  /\ fn_in \in FnInputs

ApplyCapitalize ==
  /\ fn_in.fn = "capitalize_address_item"
  /\ fn_out = NotStarted
  /\ fn_out' = [done |-> TRUE, result |-> capitalize_address_item(fn_in.arg)]
  /\ UNCHANGED <<locations, orgs, nextId, pc, caller, token, codes, idx,
                 response_data, api_result, processed_data, snapshot, fn_in,
                 overlapped>>

ApplyProcess ==
  /\ fn_in.fn = "process_organizations"
  /\ fn_out = NotStarted
  /\ fn_out' = [done |-> TRUE,
                result |-> process_organizations(<<fn_in.arg>>, nextId, nextId)]
  /\ UNCHANGED <<locations, orgs, nextId, pc, caller, token, codes, idx,
                 response_data, api_result, processed_data, snapshot, fn_in,
                 overlapped>>

NextFn == ApplyCapitalize \/ ApplyProcess

SpecFn == InitFn /\ [][NextFn]_vars

----------------------------------------------------------------------------
(* Properties *)

Duplicate(table) ==
  \E i, j \in DOMAIN table :
    i # j /\ table[i].lookup_field = table[j].lookup_field

Lookups(table) == {table[i].lookup_field : i \in DOMAIN table}

\* an item without its link
WithoutLink(item) == [item EXCEPT !.managingOrganization = EmptyStr]

\* identifier.value of an organisations item, "" when it has none
IdentifierValue(org_item) ==
  IF "identifier" \in DOMAIN org_item.v
     /\ "value" \in DOMAIN org_item.v["identifier"].v
    THEN org_item.v["identifier"].v["value"]
    ELSE EmptyStr

MatchAt(value, org_items, k) == IdentifierValue(org_items[k]) = value

HasMatch(value, org_items) ==
  \E k \in 1..Len(org_items) : MatchAt(value, org_items, k)

LastMatch(value, org_items) ==
  org_items[CHOOSE k \in 1..Len(org_items) :
              /\ MatchAt(value, org_items, k)
              /\ \A j \in (k + 1)..Len(org_items) : ~MatchAt(value, org_items, j)]

\* process p performs the loops of update_records in this step
UpdateStep(p) == pc[p] = "ur_update" /\ pc'[p] # "ur_update"

\* C1: with one invocation at a time, the locations table never holds two
\* records with the same lookup_field value.
C1_NoDuplicateLookup == ~Duplicate(locations)

\* C1 witness: write_to_dynamodb is about to check an item whose lookup_field
\* is already in the table (a repeated org id).
C1_Witness ==
  \E p \in Procs :
    /\ pc[p] = "write_check"
    /\ processed_data[p] # <<>>
    /\ Head(processed_data[p]).lookup_field \in Lookups(locations)

\* the org ids of the Organization entries of the response being written
BatchIds(p) ==
  LET entries == GetDefault(response_data[p], "entry", List(<<>>)).v IN
  {Get(Get(entries[k], "resource"), "id") :
     k \in {n \in 1..Len(entries) :
              Get(Get(entries[n], "resource"), "resourceType") = Str(<<"O">>)}}

\* C2 (as claimed): once every item of a batch has been written, each distinct
\* org id of the batch has exactly one record; a record once inserted is never
\* removed or replaced; the set of lookup_field values only grows.
C2_RecordLifecycle ==
  /\ [](\A p \in Procs :
          pc[p] = "ur_scan" =>
            \A v \in BatchIds(p) : Cardinality(ScanLookup(locations, v)) = 1)
  /\ [][/\ \A i \in DOMAIN locations :
             /\ i \in DOMAIN locations'
             /\ WithoutLink(locations'[i]) = WithoutLink(locations[i])
        /\ Lookups(locations) \subseteq Lookups(locations')]_vars

\* C3: update_records changes managingOrganization only on records whose
\* lookup_field equals the identifier.value of a scanned organisations item;
\* records without a match, with an empty lookup_field or with a non-empty
\* managingOrganization are unchanged; no other attribute changes; no record
\* is added to or removed from either table.
C3_CrossLinkFrame ==
  [][\A p \in Procs :
       UpdateStep(p) =>
         /\ orgs' = orgs
         /\ DOMAIN locations' = DOMAIN locations
         /\ \A i \in DOMAIN locations :
              /\ WithoutLink(locations'[i]) = WithoutLink(locations[i])
              /\ locations'[i] # locations[i] =>
                   HasMatch(locations[i].lookup_field, snapshot[p].org_items)
              /\ (\/ ~HasMatch(locations[i].lookup_field, snapshot[p].org_items)
                  \/ ~Truthy(locations[i].lookup_field)
                  \/ locations[i].managingOrganization # EmptyStr) =>
                   locations'[i] = locations[i]]_vars

\* C3 witness: after a cross-link one record is linked and another record,
\* which has a lookup_field, is not.
C3_Witness ==
  \E i, j \in DOMAIN locations :
    /\ locations[i].managingOrganization # EmptyStr
    /\ locations[j].managingOrganization = EmptyStr
    /\ Truthy(locations[j].lookup_field)

\* C5 (as claimed): no exception escapes lambda_handler.
C5_AlwaysCompletes == \A p \in Procs : pc[p] # "crashed"

\* C6 (as claimed): a token response without access_token does not abort the
\* run.
C6_AbsentTokenNotFatal ==
  \A p \in Procs : token[p] = None => pc[p] # "crashed"

FailedRead(p) ==
  /\ pc[p] = "branch"
  /\ caller[p] = "fetch_organizations"
  /\ api_result[p] \in {"non200", "exception"}

\* C7: when the read for one ODS code returns non-200 or raises, read_ods_api
\* yields None, the iteration writes nothing and runs no cross-link, and the
\* loop continues with the next code; at the loop head the next code is read.
C7_FailureIsolation ==
  /\ [](\A p \in Procs : FailedRead(p) => response_data[p] = None)
  /\ [][\A p \in Procs :
          /\ FailedRead(p) /\ pc'[p] # pc[p] =>
               /\ locations' = locations
               /\ nextId' = nextId
               /\ pc'[p] = "fo_loop"
               /\ codes'[p] = codes[p]
               /\ idx'[p] = idx[p] + 1
          /\ pc[p] = "fo_loop" /\ idx[p] <= Len(codes[p]) /\ pc'[p] # pc[p] =>
               /\ pc'[p] = "branch"
               /\ idx'[p] = idx[p]]_vars

\* C7 witness: a read has failed while the table holds records and further
\* codes remain.
C7_Witness ==
  \E p \in Procs :
    /\ FailedRead(p)
    /\ idx[p] < Len(codes[p])
    /\ DOMAIN locations # {}

\* C9: two records with the same lookup_field exist only if an invocation
\* started while another one was running.
C9_DuplicateOnlyAfterOverlap == Duplicate(locations) => overlapped

\* C9 witness: two overlapping invocations have left two records with the same
\* lookup_field.
C9_Witness == Duplicate(locations) /\ overlapped

\* C10: update_records sets managingOrganization of every unlinked record that
\* has a non-empty lookup_field with a match to the id of the last matching
\* item in scan order, and never rewrites a non-empty managingOrganization.
C10_LinkCompleteAndStable ==
  [][\A p \in Procs :
       UpdateStep(p) =>
         \A i \in DOMAIN locations :
           /\ (/\ locations[i].managingOrganization = EmptyStr
               /\ Truthy(locations[i].lookup_field)
               /\ HasMatch(locations[i].lookup_field, snapshot[p].org_items)) =>
                locations'[i].managingOrganization =
                  Get(LastMatch(locations[i].lookup_field, snapshot[p].org_items), "id")
           /\ locations[i].managingOrganization # EmptyStr =>
                locations'[i].managingOrganization = locations[i].managingOrganization]_vars

\* C10 witness: update_records is about to run over a record that is already
\* linked while the scanned organisations table offers a different match.
C10_Witness ==
  \E p \in Procs, i \in DOMAIN locations :
    /\ pc[p] = "ur_update"
    /\ locations[i].managingOrganization # EmptyStr
    /\ HasMatch(locations[i].lookup_field, snapshot[p].org_items)
    /\ Get(LastMatch(locations[i].lookup_field, snapshot[p].org_items), "id")
         # locations[i].managingOrganization

\* out is the title-cased form of the str in: the same characters up to case,
\* every cased character uppercase after an uncased one (or at the start) and
\* lowercase after a cased one
IsTitleOfStr(out, in) ==
  /\ IsStr(in)
  /\ IsStr(out)
  /\ Len(out.v) = Len(in.v)
  /\ \A i \in 1..Len(out.v) :
       /\ ToLower(out.v[i]) = ToLower(in.v[i])
       /\ IsCased(out.v[i]) =>
            IF i > 1 /\ IsCased(out.v[i - 1])
              THEN IsLowerChar(out.v[i])
              ELSE IsUpperChar(out.v[i])

IsTitleOf(out, in) ==
  IF IsList(in)
    THEN /\ IsList(out)
         /\ Len(out.v) = Len(in.v)
         /\ \A i \in 1..Len(in.v) : IsTitleOfStr(out.v[i], in.v[i])
    ELSE IsTitleOfStr(out, in)

Capitalized == fn_in.fn = "capitalize_address_item" /\ fn_out.done

\* C8 (as claimed): the item capitalize_address_item returns has `line`,
\* `city`, `district` and `country` title-cased, no `extension` key, and
\* every other key (postalCode included) equal to the input.
C8_AddressNormalizationAsClaimed ==
  Capitalized =>
    /\ IsDict(fn_out.result)
    /\ DOMAIN fn_out.result.v = DOMAIN fn_in.arg.v \ {"extension"}
    /\ \A key \in DOMAIN fn_out.result.v :
         IF key \in {"line", "city", "district", "country"}
           THEN IsTitleOf(fn_out.result.v[key], fn_in.arg.v[key])
           ELSE fn_out.result.v[key] = fn_in.arg.v[key]

\* C8 (amended): as claimed, except that `line` is title-cased, element by
\* element, only when it is a list; a `line` that is not a list is passed
\* through unchanged.
C8_AddressNormalization ==
  Capitalized =>
    /\ IsDict(fn_out.result)
    /\ DOMAIN fn_out.result.v = DOMAIN fn_in.arg.v \ {"extension"}
    /\ \A key \in DOMAIN fn_out.result.v :
         IF key \in {"city", "district", "country"}
              \/ (key = "line" /\ IsList(fn_in.arg.v[key]))
           THEN IsTitleOf(fn_out.result.v[key], fn_in.arg.v[key])
           ELSE fn_out.result.v[key] = fn_in.arg.v[key]

\* C8 witness: an item with a list `line`, a city, a postalCode, an extension
\* and another key has been normalised, and title-casing changed the city.
C8_Witness ==
  /\ Capitalized
  /\ {"line", "city", "postalCode", "extension", "use"} \subseteq DOMAIN fn_in.arg.v
  /\ IsList(fn_in.arg.v["line"])
  /\ Len(fn_in.arg.v["line"].v) > 0
  /\ fn_out.result.v["city"] # fn_in.arg.v["city"]

HasKey(d, key) == IsDict(d) /\ key \in DOMAIN d.v

NonEmptyListAt(d, key, n) ==
  HasKey(d, key) /\ IsList(d.v[key]) /\ Len(d.v[key].v) >= n

\* every step of address[0].extension[0].extension[1].valueString is present
PathPresent(org) ==
  /\ NonEmptyListAt(org, "address", 1)
  /\ NonEmptyListAt(org.v["address"].v[1], "extension", 1)
  /\ NonEmptyListAt(org.v["address"].v[1].v["extension"].v[1], "extension", 2)
  /\ HasKey(org.v["address"].v[1].v["extension"].v[1].v["extension"].v[2],
            "valueString")

PathValue(org) ==
  org.v["address"].v[1].v["extension"].v[1].v["extension"].v[2].v["valueString"]

\* C4 (as claimed): the record of an Organization entry has no UPRN key when
\* any step of the nested path is missing, and carries UPRN equal to the
\* valueString when the path is fully present.
C4_UprnOmission ==
  (/\ fn_in.fn = "process_organizations"
   /\ fn_out.done
   /\ fn_in.arg \notin OtherEntries) =>
    /\ IsList(fn_out.result)
    /\ Len(fn_out.result.v) = 1
    /\ IF PathPresent(fn_in.arg.v["resource"])
         THEN /\ "UPRN" \in DOMAIN fn_out.result.v[1]
              /\ fn_out.result.v[1].UPRN = PathValue(fn_in.arg.v["resource"])
         ELSE "UPRN" \notin DOMAIN fn_out.result.v[1]

====
